---- MODULE Spec2Model ----
(***************************************************************************)
(* A model of thinker-ast.js: the AST-based patcher that locates the       *)
(* thinking-panel sites of a minified cli.js through string anchors,       *)
(* edits them, verifies the edited text and writes it back atomically.     *)
(*                                                                         *)
(* The target text is modelled by the facts the matchers read from its     *)
(* syntax tree (a record, type Doc below): one entry per anchor literal,   *)
(* per case "thinking", per memo'd component and so on, each carrying the  *)
(* shape the matcher inspects.  Two texts are equal iff their records are. *)
(* Strings that the code inspects character by character (the colour       *)
(* arguments) are sequences of one-character strings.                      *)
(***************************************************************************)
EXTENDS Integers, Sequences, FiniteSets, TLC

Null == <<"null">>          \* JavaScript null / undefined / absent argument

Min(S) == CHOOSE x \in S : \A y \in S : x <= y
Max(S) == CHOOSE x \in S : \A y \in S : x >= y

\* The sequence s without its i-th element.
RemoveAt(s, i) == [j \in 1..(Len(s) - 1) |-> IF j < i THEN s[j] ELSE s[j + 1]]

\* All sequences over S of length 0..n.
SeqUpTo(S, n) == UNION {[1..k -> S] : k \in 0..n}

(***************************************************************************)
(* Colours: presets, themes and validation.                                *)
(***************************************************************************)
HexDigit == {"0", "1", "2", "3", "4", "5", "6", "7", "8", "9",
             "a", "b", "c", "d", "e", "f", "A", "B", "C", "D", "E", "F"}

\* /^#([0-9a-fA-F]{3}|[0-9a-fA-F]{6})$/.test(color)
IsHexColor(color) ==
    /\ color # Null
    /\ Len(color) \in {4, 7}
    /\ color[1] = "#"
    /\ \A i \in 2..Len(color) : color[i] \in HexDigit

COLOR_PRESETS ==
    [k \in {<<"d","i","m">>, <<"c","y","a","n">>, <<"g","r","e","e","n">>,
            <<"m","a","g","e","n","t","a">>, <<"y","e","l","l","o","w">>,
            <<"b","l","u","e">>, <<"r","e","d">>, <<"w","h","i","t","e">>,
            <<"p","i","n","k">>, <<"o","r","a","n","g","e">>,
            <<"p","u","r","p","l","e">>, <<"t","e","a","l">>,
            <<"g","o","l","d">>, <<"l","i","m","e">>, <<"c","o","r","a","l">>,
            <<"s","k","y">>} |->
       CASE k = <<"d","i","m">> -> Null
         [] k = <<"c","y","a","n">> -> <<"#","0","0","f","f","f","f">>
         [] k = <<"g","r","e","e","n">> -> <<"#","3","2","c","d","3","2">>
         [] k = <<"m","a","g","e","n","t","a">> -> <<"#","f","f","0","0","f","f">>
         [] k = <<"y","e","l","l","o","w">> -> <<"#","f","f","f","f","0","0">>
         [] k = <<"b","l","u","e">> -> <<"#","4","1","6","9","e","1">>
         [] k = <<"r","e","d">> -> <<"#","f","f","4","4","4","4">>
         [] k = <<"w","h","i","t","e">> -> <<"#","f","f","f","f","f","f">>
         [] k = <<"p","i","n","k">> -> <<"#","f","f","6","9","b","4">>
         [] k = <<"o","r","a","n","g","e">> -> <<"#","f","f","8","c","0","0">>
         [] k = <<"p","u","r","p","l","e">> -> <<"#","9","3","7","0","d","b">>
         [] k = <<"t","e","a","l">> -> <<"#","2","0","b","2","a","a">>
         [] k = <<"g","o","l","d">> -> <<"#","f","f","d","7","0","0">>
         [] k = <<"l","i","m","e">> -> <<"#","0","0","f","f","0","0">>
         [] k = <<"c","o","r","a","l">> -> <<"#","f","f","7","f","5","0">>
         [] k = <<"s","k","y">> -> <<"#","8","7","c","e","e","b">>]

THEME_PRESETS ==
    [t \in {"watermelon", "emerald-saffron", "bubblegum", "carrot", "autumn",
            "ocean", "forest", "cherry-blossom", "cyberpunk"} |->
       CASE t = "watermelon" ->
               [header |-> <<"#","3","2","c","d","3","2">>, content |-> <<"#","F","F","7","7","F","F">>]
         [] t = "emerald-saffron" ->
               [header |-> <<"#","0","0","C","8","5","3">>, content |-> <<"#","F","4","C","2","4","D">>]
         [] t = "bubblegum" ->
               [header |-> <<"#","8","7","c","e","e","b">>, content |-> <<"#","F","F","7","7","F","F">>]
         [] t = "carrot" ->
               [header |-> <<"#","f","f","8","c","0","0">>, content |-> <<"#","3","2","c","d","3","2">>]
         [] t = "autumn" ->
               [header |-> <<"#","F","F","B","F","0","0">>, content |-> <<"#","D","2","6","9","1","E">>]
         [] t = "ocean" ->
               [header |-> <<"#","9","8","D","8","C","8">>, content |-> <<"#","2","0","B","2","A","A">>]
         [] t = "forest" ->
               [header |-> <<"#","9","0","E","E","9","0">>, content |-> <<"#","2","2","8","B","2","2">>]
         [] t = "cherry-blossom" ->
               [header |-> <<"#","F","F","6","9","B","4">>, content |-> <<"#","F","F","B","6","C","1">>]
         [] t = "cyberpunk" ->
               [header |-> <<"#","F","C","E","3","0","0">>, content |-> <<"#","0","0","F","0","F","F">>]]

\* Names every object inherits from Object.prototype: THEME_PRESETS[name] is
\* truthy for them although they are no theme, and has no header/content.
ProtoKeys == {"constructor", "toString"}

Thrown == <<"throw">>       \* the value of a call that threw

\* A validateColor without the hex test: any string that is no preset name is
\* returned as it is.
validateColorNoHexTest(color) ==
    IF color = Null THEN Null
    ELSE IF color \in DOMAIN COLOR_PRESETS THEN COLOR_PRESETS[color]
    ELSE color

\* validateColor(color): null, the validated colour, or Thrown.
validateColor(color) ==
    IF color = Null THEN Null
    ELSE IF color \in DOMAIN COLOR_PRESETS THEN COLOR_PRESETS[color]
    ELSE IF IsHexColor(color) THEN color
    ELSE Thrown

\* A JavaScript string used as a condition: null and '' are falsy.
Truthy(s) == s # Null /\ s # <<>>

\* resolveColors(): reads THEME, CUSTOM_COLOR and CONTENT_COLOR.  THEME is a
\* plain string, "" when --theme is absent or empty (both falsy); the colour
\* arguments are Null when absent.  threw is TRUE when validateColor threw.
resolveColors(THEME, CUSTOM_COLOR, CONTENT_COLOR) ==
    LET viaTheme == THEME # "" /\ THEME \in (DOMAIN THEME_PRESETS \cup ProtoKeys)
        h == IF viaTheme
             THEN validateColor(IF THEME \in DOMAIN THEME_PRESETS
                                THEN THEME_PRESETS[THEME].header ELSE Null)
             ELSE IF Truthy(CUSTOM_COLOR) THEN validateColor(CUSTOM_COLOR) ELSE Null
        c == IF viaTheme
             THEN validateColor(IF THEME \in DOMAIN THEME_PRESETS
                                THEN THEME_PRESETS[THEME].content ELSE Null)
             ELSE IF h = Thrown THEN Thrown
             ELSE IF Truthy(CONTENT_COLOR) THEN validateColor(CONTENT_COLOR) ELSE h
    IN  [threw |-> (h = Thrown \/ c = Thrown),
         headerColor |-> IF h = Thrown \/ c = Thrown THEN Null ELSE h,
         contentColor |-> IF h = Thrown \/ c = Thrown THEN Null ELSE c]

EXIT == [SUCCESS |-> 0, GENERAL_ERROR |-> 1, AMBIGUOUS |-> 2,
         VERIFICATION_FAILED |-> 3, ALREADY_PATCHED |-> 4]

(***************************************************************************)
(* The target text, as the matchers see it.                                *)
(*                                                                         *)
(*  grammar  "script" | "module" | "none": which acorn grammar accepts it  *)
(*  headers  one entry per literal "∴ Thinking…"                           *)
(*  anchors  one entry per literal "∴ Thinking (": the tests of the        *)
(*           IfStatements enclosing it, nearest first                      *)
(*  cases    one entry per SwitchCase whose test is "thinking": its        *)
(*           top-level statements                                          *)
(*  wrappers one entry per (createElement with paddingLeft, nested         *)
(*           createElement child) pair in the 500 characters after the     *)
(*           header literal                                                *)
(*  fn       the FunctionDeclaration named like the wrapper's content      *)
(*           component                                                     *)
(*  memos    one entry per X.memo(function({children:..}){..}) call        *)
(***************************************************************************)

\* ---- props arguments of createElement calls
\* kind "null": the literal null; "obj": an ObjectExpression; "expr": anything else.
\* keys: the property names of the object other than color; color: the value
\* of its color property, Null when it has none.
Props(kind, keys, color) == [kind |-> kind, keys |-> keys, color |-> color]
NullProps == Props("null", {}, Null)

\* findObjectProperty(objExpr, keyName) !== null
findObjectProperty(props, keyName) ==
    /\ props.kind = "obj"
    /\ IF keyName = "color" THEN props.color # Null ELSE keyName \in props.keys

\* ---- "∴ Thinking…" literals
\* pos: "child" when the nearest enclosing createElement call holds the literal
\* in arguments[2+], "props" when in arguments[0..1], "nocall" when no
\* createElement call encloses it.
HeaderLit(pos, props) == [pos |-> pos, props |-> props]

\* ---- "∴ Thinking (" literals: tests of the enclosing IfStatements
\*   "not1"      !1
\*   "notOrIds"  !(A||B), A and B identifiers
\*   "notOrExpr" !(x||y) with an operand that is no identifier
\*   "notId"     !A
\*   "other"     any other test
TestShapes == {"not1", "notOrIds", "notOrExpr", "notId", "other"}

\* ---- statements of a case "thinking" body
\* type "If": an IfStatement; guard tells whether it is  if(<negation>)return null
\* type "Return": call tells whether the argument is a createElement call;
\*   props is "none" (no arguments[1]), "expr" or "obj"; itm / hide are the
\*   values of isTranscriptMode / hideInTranscript in an "obj" props:
\*   "absent", "id" (key: identifier), "not0" (!0), "not1" (!1), "short"
\*   (the shorthand property {isTranscriptMode}: its value node is its key)
\* type "Other": anything else
Stmt(type, guard, call, props, itm, hide) ==
    [type |-> type, guard |-> guard, call |-> call, props |-> props,
     itm |-> itm, hide |-> hide]
IfStmt(guard) == Stmt("If", guard, FALSE, "none", "absent", "absent")
RetStmt(call, props, itm, hide) == Stmt("Return", FALSE, call, props, itm, hide)
OtherStmt == Stmt("Other", FALSE, FALSE, "none", "absent", "absent")

\* ---- content wrapper candidates
\* comp: TRUE when arguments[0] of the nested call is an Identifier (the
\* content component's name); props: the nested call's arguments[1].
Wrapper(comp, props) == [comp |-> comp, props |-> props]

\* ---- the content component's FunctionDeclaration
\* exists; children: params[0] destructures children into an identifier;
\* color: params[0] also binds color ($TC); pushes: the number of
\* X.push(createElement(T,{key:..},S.trim())) calls in its body; direct: the
\* number of push calls already rewritten to pass color:$TC.
ContentFn(exists, children, color, pushes, direct) ==
    [exists |-> exists, children |-> children, color |-> color,
     pushes |-> pushes, direct |-> direct]
NoFn == ContentFn(FALSE, FALSE, FALSE, 0, 0)

\* ---- memo'd components
\* fnArg: arguments[0] is a FunctionExpression whose params[0] is an
\* ObjectPattern; children: that pattern binds children to an identifier;
\* extra: it binds further names; color: the text of the pattern contains
\* "color"; nullCalls: the type arguments of the createElement(T, null, ..)
\* calls in the body, in walk order ("" when T is no identifier);
\* fwd: the number of createElement(T,{color:$MC},..) calls in the body;
\* ansi: the function text contains ".length===1", "Object.keys", "typeof".
Memo(fnArg, children, extra, color, nullCalls, fwd, ansi) ==
    [fnArg |-> fnArg, children |-> children, extra |-> extra, color |-> color,
     nullCalls |-> nullCalls, fwd |-> fwd, ansi |-> ansi]

\* nested: the IfStatement nearest to the first "∴ Thinking (" literal is the
\* last top-level IfStatement of the first case "thinking" body, so that the
\* range of its test lies inside the range of that statement.
MkDoc(grammar, headers, anchors, cases, wrappers, fn, memos) ==
    [grammar |-> grammar, headers |-> headers, anchors |-> anchors,
     cases |-> cases, wrappers |-> wrappers, fn |-> fn, memos |-> memos,
     nested |-> FALSE]

\* A parser that knows the script grammar only.
parseWithAcornScriptOnly(code) == code.grammar = "script"

\* The acorn.parse calls of parseWithAcorn(code), in order.
grammarsTried(code) ==
    IF code.grammar = "script" THEN <<"script">> ELSE <<"script", "module">>

\* parseWithAcorn(code) !== null: the script grammar is tried first, the
\* module grammar only after the script grammar threw.
parseWithAcorn(code) ==
    LET scriptOk == code.grammar = "script"
        moduleOk == code.grammar \in {"script", "module"}
    IN  IF scriptOk THEN TRUE ELSE moduleOk

(***************************************************************************)
(* Matcher results: success, or error with count; idx is the position (in  *)
(* the document's list) of the candidate the result describes, 0 if none.  *)
(***************************************************************************)
Found(idx, isPatched) ==
    [success |-> TRUE, error |-> "", count |-> 0, idx |-> idx, isPatched |-> isPatched]
Failed(error, count) ==
    [success |-> FALSE, error |-> error, count |-> count, idx |-> 0, isPatched |-> FALSE]

\* findExpandedHeader(ast, code)
findExpandedHeader(code) ==
    LET matches == code.headers
        validMatches == {i \in 1..Len(matches) : matches[i].pos = "child"}
        isPatched(i) == findObjectProperty(matches[i].props, "color")
    IN  IF Len(matches) = 0 THEN Failed("NOT_FOUND", 0)
        ELSE IF validMatches = {} THEN Failed("PATTERN_MISMATCH", 0)
        ELSE IF Cardinality(validMatches) > 1
             THEN Failed("AMBIGUOUS", Cardinality(validMatches))
        ELSE Found(Min(validMatches), isPatched(Min(validMatches)))

\* findAncestorOfType(ancestors, 'IfStatement'): the nearest one, or none.
findAncestorOfType(ifTests) == IF Len(ifTests) = 0 THEN Null ELSE <<ifTests[1]>>

\* The shape tests findCollapsedView applies to the nearest IfStatement's test.
cvIsPatchedTest(test) == test = "not1"
cvIsUnpatchedTest(test) == test \in {"notOrIds", "notOrExpr", "notId"}

\* A findCollapsedView without the disambiguation among several valid
\* matches: the first valid match is returned.
findCollapsedViewFirstValid(code) ==
    LET matches == code.anchors
        validMatches == {i \in 1..Len(matches) :
                            /\ findAncestorOfType(matches[i]) # Null
                            /\ \/ cvIsPatchedTest(matches[i][1])
                               \/ cvIsUnpatchedTest(matches[i][1])}
    IN  IF Len(matches) = 0 THEN Failed("NOT_FOUND", 0)
        ELSE IF validMatches = {} THEN Failed("PATTERN_MISMATCH", 0)
        ELSE Found(Min(validMatches), cvIsPatchedTest(matches[Min(validMatches)][1]))

\* findCollapsedView(ast, code)
findCollapsedView(code) ==
    LET matches == code.anchors
        near(i) == findAncestorOfType(matches[i])
        validMatches == {i \in 1..Len(matches) :
                            /\ near(i) # Null
                            /\ \/ cvIsPatchedTest(near(i)[1])
                               \/ cvIsUnpatchedTest(near(i)[1])}
        patched(i) == cvIsPatchedTest(near(i)[1])
        unpatchedMatches == {i \in validMatches : ~patched(i)}
    IN  IF Len(matches) = 0 THEN Failed("NOT_FOUND", 0)
        ELSE IF validMatches = {} THEN Failed("PATTERN_MISMATCH", 0)
        ELSE IF Cardinality(validMatches) > 1
             THEN IF Cardinality(unpatchedMatches) > 1
                  THEN Failed("AMBIGUOUS", Cardinality(unpatchedMatches))
                  ELSE IF unpatchedMatches # {}
                       THEN Found(Min(unpatchedMatches), FALSE)
                       ELSE Found(Min(validMatches), TRUE)
        ELSE Found(Min(validMatches), patched(Min(validMatches)))

\* The per-case scan of findSwitchCase over the case's top-level statements.
\* guardNode: the last IfStatement; returnNode: the last return of a
\* createElement call; propsNode: arguments[1] of the last such return that
\* has one (0: none); hasIsTranscriptMode: some such props object carries
\* isTranscriptMode.
scanCase(stmts) ==
    LET ifIdx == {i \in 1..Len(stmts) : stmts[i].type = "If"}
        retIdx == {i \in 1..Len(stmts) : stmts[i].type = "Return" /\ stmts[i].call}
        propsIdx == {i \in retIdx : stmts[i].props # "none"}
        propsNode == IF propsIdx = {} THEN 0 ELSE Max(propsIdx)
    IN  [guardNode |-> IF ifIdx = {} THEN 0 ELSE Max(ifIdx),
         returnNode |-> IF retIdx = {} THEN 0 ELSE Max(retIdx),
         propsNode |-> propsNode,
         hasIsTranscriptMode |->
             \E i \in propsIdx : stmts[i].props = "obj" /\ stmts[i].itm # "absent",
         isPatched |-> /\ propsNode # 0
                       /\ stmts[propsNode].props = "obj"
                       /\ stmts[propsNode].itm = "not0"]

\* findSwitchCase(ast, code)
findSwitchCase(code) ==
    LET thinkingCases == code.cases
        scan(i) == scanCase(thinkingCases[i])
        validCases == {i \in 1..Len(thinkingCases) :
                          scan(i).hasIsTranscriptMode /\ scan(i).returnNode # 0}
        unpatchedCases == {i \in validCases : ~scan(i).isPatched}
    IN  IF Len(thinkingCases) = 0 THEN Failed("NOT_FOUND", 0)
        ELSE IF validCases = {} THEN Failed("PATTERN_MISMATCH", 0)
        ELSE IF Cardinality(validCases) > 1
             THEN IF Cardinality(unpatchedCases) > 1
                  THEN Failed("AMBIGUOUS", Cardinality(unpatchedCases))
                  ELSE IF unpatchedCases # {}
                       THEN Found(Min(unpatchedCases), FALSE)
                       ELSE Found(Min(validCases), TRUE)
        ELSE Found(Min(validCases), scan(Min(validCases)).isPatched)

\* buildSwitchCaseResult(match).guardNode: set only for an unpatched match.
buildSwitchCaseResult(code, sc) ==
    LET scan == scanCase(code.cases[sc.idx])
    IN  [guardNode |-> IF scan.guardNode # 0 /\ ~sc.isPatched THEN scan.guardNode ELSE 0,
         propsNode |-> scan.propsNode]

\* findContentWrapper(ast, code)
findContentWrapper(code) ==
    LET candidateWrappers == code.wrappers
    IN  IF ~findExpandedHeader(code).success THEN Failed("HEADER_NOT_FOUND", 0)
        ELSE IF Len(candidateWrappers) = 0 THEN Failed("PATTERN_MISMATCH", 0)
        ELSE IF Len(candidateWrappers) > 1
             THEN Failed("AMBIGUOUS", Len(candidateWrappers))
        ELSE Found(1, findObjectProperty(candidateWrappers[1].props, "color"))

\* findContentComponentFunction(ast, code, componentName): null when no
\* FunctionDeclaration has the name; childrenVar is null unless params[0]
\* destructures children into an identifier.
findContentComponentFunction(code) ==
    [found |-> code.fn.exists, childrenVar |-> code.fn.exists /\ code.fn.children]

\* findPushPattern(ast, code, componentName): "null", "AMBIGUOUS" or "patterns".
findPushPattern(code) ==
    IF ~findContentComponentFunction(code).found THEN [kind |-> "null", count |-> 0]
    ELSE IF code.fn.pushes = 0 THEN [kind |-> "null", count |-> 0]
    ELSE IF code.fn.pushes > 1 THEN [kind |-> "AMBIGUOUS", count |-> code.fn.pushes]
    ELSE [kind |-> "patterns", count |-> code.fn.pushes]

\* The root element of a memo'd component: the type of the first
\* createElement(T, null, ..) call whose T is an identifier ("" if none).
rootElement(memo) ==
    LET ids == {i \in 1..Len(memo.nullCalls) : memo.nullCalls[i] # ""}
    IN  IF ids = {} THEN "" ELSE memo.nullCalls[Min(ids)]

\* dfCreateCalls: the positions in nullCalls of the calls to the root element.
dfCreateCalls(memo) ==
    {i \in 1..Len(memo.nullCalls) :
        memo.nullCalls[i] # "" /\ memo.nullCalls[i] = rootElement(memo)}

\* M8 has (at least) this many root-element calls with null props.
M8MinCalls == 3

\* findM8Component(ast, code)
findM8Component(code) ==
    LET memoedComponents == {i \in 1..Len(code.memos) :
                                /\ code.memos[i].fnArg
                                /\ code.memos[i].children
                                /\ Cardinality(dfCreateCalls(code.memos[i])) >= M8MinCalls}
        validMatches == {i \in memoedComponents : code.memos[i].ansi}
    IN  IF validMatches = {} THEN Failed("NOT_FOUND", 0)
        ELSE IF Cardinality(validMatches) > 1
             THEN Failed("AMBIGUOUS", Cardinality(validMatches))
        ELSE Found(Min(validMatches), code.memos[Min(validMatches)].color)

\* main: the detections object.
detect(code) ==
    [expandedHeader |-> findExpandedHeader(code),
     collapsedView |-> findCollapsedView(code),
     switchCase |-> findSwitchCase(code),
     contentWrapper |-> findContentWrapper(code),
     m8Component |-> findM8Component(code)]

(***************************************************************************)
(* The patch editor.  Each edit is an overwrite or a removal of a node's   *)
(* range in the original text; on the document it replaces the shape of    *)
(* the node that was overwritten.                                          *)
(***************************************************************************)
Patch(label, color, n) == [label |-> label, color |-> color, n |-> n]

\* An editor whose Patch 1 leaves the test as it is.
overwriteNoCondition(code, cv) == code

\* An editor that overwrites the test of every guard, not only the matched one.
overwriteEveryCondition(code, cv) ==
    [code EXCEPT !.anchors =
        [i \in 1..Len(code.anchors) |->
            IF Len(code.anchors[i]) > 0
            THEN <<"not1">> \o Tail(code.anchors[i]) ELSE code.anchors[i]]]

\* Patch 1: ms.overwrite(cv.conditionStart, cv.conditionEnd, '!1')
overwriteCondition(code, cv) ==
    [code EXCEPT !.anchors[cv.idx][1] = "not1"]

\* Patch 2: ms.remove(guardStart, guardEnd) when the result carries a guard;
\* isTranscriptMode's value overwritten with !0 and hideInTranscript's with !1
\* when the props node is an object that has them.
forcedProps(st) ==
    Stmt(st.type, st.guard, st.call, st.props,
         IF st.itm # "absent" THEN "not0" ELSE st.itm,
         IF st.hide # "absent" THEN "not1" ELSE st.hide)

withForcedProps(stmts, p) ==
    IF p # 0 /\ stmts[p].props = "obj"
    THEN [j \in 1..Len(stmts) |-> IF j = p THEN forcedProps(stmts[j]) ELSE stmts[j]]
    ELSE stmts

withoutGuard(stmts, g) == IF g # 0 THEN RemoveAt(stmts, g) ELSE stmts

\* Overwriting the value range of a shorthand property replaces the whole
\* property: {isTranscriptMode} becomes {!0}, which no grammar accepts.
overwritesShorthand(stmts, p) ==
    /\ p # 0 /\ stmts[p].props = "obj"
    /\ (stmts[p].itm = "short" \/ stmts[p].hide = "short")

\* ms.remove(sc.guardStart, sc.guardEnd) takes out the whole range of the
\* statement: a literal inside it, and an overwrite already made inside it,
\* go with it.
removesNested(code, sc) ==
    /\ code.nested /\ sc.idx = 1 /\ Len(code.anchors) > 0
    /\ buildSwitchCaseResult(code, sc).guardNode # 0

forceTranscriptMode(code, sc) ==
    LET r == buildSwitchCaseResult(code, sc)
    IN  [code EXCEPT
            !.cases[sc.idx] =
                withoutGuard(withForcedProps(code.cases[sc.idx], r.propsNode), r.guardNode),
            !.grammar =
                IF overwritesShorthand(code.cases[sc.idx], r.propsNode)
                THEN "none" ELSE code.grammar,
            !.anchors =
                IF removesNested(code, sc) THEN Tail(code.anchors) ELSE code.anchors,
            !.nested =
                IF removesNested(code, sc) THEN FALSE ELSE code.nested]

\* Patch 3: ms.overwrite(eh.propsStart, eh.propsEnd, `{italic:!0,color:"<headerColor>"}`)
overwriteHeaderProps(code, eh, headerColor) ==
    [code EXCEPT !.headers[eh.idx].props = Props("obj", {"italic"}, headerColor)]

\* Patch 4a/4b: the M8 signature becomes {children:Q,color:$MC} and every
\* root-element call's null props become {color:$MC}.
patchM8(code, m8) ==
    LET memo == code.memos[m8.idx]
        df == dfCreateCalls(memo)
        kept == {i \in 1..Len(memo.nullCalls) : i \notin df}
        \* the k-th kept call, in order
        nth(k) == CHOOSE i \in kept : Cardinality({j \in kept : j <= i}) = k
    IN  [code EXCEPT !.memos[m8.idx] =
            [memo EXCEPT !.extra = FALSE, !.color = TRUE,
                         !.nullCalls = [k \in 1..Cardinality(kept) |-> memo.nullCalls[nth(k)]],
                         !.fwd = memo.fwd + Cardinality(df)]]

\* Patch 4c/4d on the content wrapper, the content component and its push
\* call.  exit is TRUE when findPushPattern is AMBIGUOUS: process.exit there.
patchContent(code, cw, contentColor) ==
    IF ~(cw.success /\ code.wrappers[cw.idx].comp)
    THEN [code |-> code, exit |-> FALSE, patches |-> <<>>]
    ELSE
      LET w == code.wrappers[cw.idx]
          c1 == IF w.props.kind = "null"
                THEN [code EXCEPT !.wrappers[cw.idx].props = Props("obj", {}, contentColor)]
                ELSE code
          funcInfo == findContentComponentFunction(code)
          pushResult == findPushPattern(code)
      IN  IF ~(funcInfo.found /\ funcInfo.childrenVar)
          THEN [code |-> c1, exit |-> FALSE, patches |-> <<>>]
          ELSE
            LET c2 == [c1 EXCEPT !.fn.color = TRUE]
                sig == <<Patch("Content component: signature updated", Null, 0)>>
            IN  IF pushResult.kind = "AMBIGUOUS"
                THEN [code |-> c2, exit |-> TRUE, patches |-> sig]
                ELSE IF pushResult.kind = "patterns"
                THEN [code |-> [c2 EXCEPT !.fn.pushes = 0,
                                          !.fn.direct = code.fn.direct + pushResult.count],
                      exit |-> FALSE,
                      patches |-> sig \o <<Patch("Push patterns: direct M8 invocation",
                                                 Null, pushResult.count)>>]
                ELSE [code |-> c2, exit |-> FALSE, patches |-> sig]

\* The conditions of applyPatches' four edit branches.
doPatch1(detections) ==
    detections.collapsedView.success /\ ~detections.collapsedView.isPatched
doPatch2(detections) ==
    detections.switchCase.success /\ ~detections.switchCase.isPatched
doPatch3(detections, colors) ==
    /\ Truthy(colors.headerColor)
    /\ detections.expandedHeader.success /\ ~detections.expandedHeader.isPatched
doPatch4(detections, colors) ==
    /\ Truthy(colors.contentColor)
    /\ detections.m8Component.success /\ ~detections.m8Component.isPatched

\* Two edits of one pass overlap: Patch 1 overwrites the test of the
\* IfStatement that Patch 2 removes.
editsOverlap(code, cols) ==
    LET d == detect(code)
    IN  /\ doPatch1(d) /\ doPatch2(d)
        /\ d.collapsedView.idx = 1
        /\ removesNested(code, d.switchCase)

\* The text after patches 1 to 3 and the M8 part of patch 4.
patches1to4b(code, detections, colors) ==
    LET c1 == IF doPatch1(detections)
              THEN overwriteCondition(code, detections.collapsedView) ELSE code
        c2 == IF doPatch2(detections)
              THEN forceTranscriptMode(c1, detections.switchCase) ELSE c1
        c3 == IF doPatch3(detections, colors)
              THEN overwriteHeaderProps(c2, detections.expandedHeader, colors.headerColor)
              ELSE c2
    IN  IF doPatch4(detections, colors) THEN patchM8(c3, detections.m8Component) ELSE c3

\* The patch report of applyPatches, but for the entries of patch 4c/4d.
patchReport(code, detections, colors) ==
    LET cv == detections.collapsedView
        sc == detections.switchCase
        eh == detections.expandedHeader
        m8 == detections.m8Component
    IN  [p1 |-> IF doPatch1(detections)
                THEN <<Patch("Collapsed view guard disabled", Null, 0)>>
                ELSE IF cv.isPatched
                THEN <<Patch("Collapsed view guard (already patched)", Null, 0)>>
                ELSE <<>>,
         p2 |-> IF doPatch2(detections)
                THEN <<Patch("Switch case: transcript mode forced", Null, 0)>>
                ELSE IF sc.isPatched
                THEN <<Patch("Switch case (already patched)", Null, 0)>>
                ELSE <<>>,
         p3 |-> IF doPatch3(detections, colors)
                THEN <<Patch("Header color", colors.headerColor, 0)>>
                ELSE IF Truthy(colors.headerColor) /\ eh.isPatched
                THEN <<Patch("Header color (already patched)", Null, 0)>>
                ELSE <<>>,
         p4 |-> IF doPatch4(detections, colors)
                THEN <<Patch("M8 component: signature updated", Null, 0),
                       Patch("M8 component: createElement calls patched", Null,
                             Cardinality(dfCreateCalls(code.memos[m8.idx])))>>
                ELSE <<>>,
         p5 |-> IF doPatch4(detections, colors)
                THEN <<Patch("Content color", colors.contentColor, 0)>>
                ELSE IF Truthy(colors.contentColor) /\ m8.isPatched
                THEN <<Patch("Content color (already patched)", Null, 0)>>
                ELSE <<>>]

\* applyPatches(code, ast, detections, colors).  exit: process.exit(AMBIGUOUS)
\* was called inside; applied: the patches whose edit branch ran.
applyPatches(code, detections, colors) ==
    LET r == IF doPatch4(detections, colors)
             THEN patchContent(patches1to4b(code, detections, colors),
                               detections.contentWrapper, colors.contentColor)
             ELSE [code |-> patches1to4b(code, detections, colors),
                   exit |-> FALSE, patches |-> <<>>]
        rep == patchReport(code, detections, colors)
    IN  [code |-> r.code,
         patches |-> rep.p1 \o rep.p2 \o rep.p3 \o rep.p4 \o r.patches \o rep.p5,
         exit |-> r.exit,
         applied |-> (IF doPatch1(detections) THEN {"collapsedView"} ELSE {})
                     \cup (IF doPatch2(detections) THEN {"switchCase"} ELSE {})
                     \cup (IF doPatch3(detections, colors) THEN {"expandedHeader"} ELSE {})
                     \cup (IF doPatch4(detections, colors) THEN {"m8Component"} ELSE {})]

(***************************************************************************)
(* The verifier.                                                           *)
(***************************************************************************)
\* main calls verifyPatchedCode(patchedCode, colors): expectedPatches is
\* undefined there, so every expectedPatches?.x is falsy.
Expected(cv, sc, hc, cc) ==
    [collapsedView |-> cv, switchCase |-> sc, headerColor |-> hc, contentColor |-> cc]
NoExpectedPatches == Expected(FALSE, FALSE, FALSE, FALSE)

\* A verifier that never re-parses the edited text.
verifyPatchedCodeNoReparse(patchedCode, colors, expectedPatches) ==
    [valid |-> TRUE, checks |-> {}, failures |-> {}]

\* verifyPatchedCode(patchedCode, colors, expectedPatches)
verifyPatchedCode(patchedCode, colors, expectedPatches) ==
    IF ~parseWithAcorn(patchedCode)
    THEN [valid |-> FALSE, checks |-> {}, failures |-> {"parse"}]
    ELSE
      LET collapsedResult == findCollapsedView(patchedCode)
          switchResult == findSwitchCase(patchedCode)
          headerResult == findExpandedHeader(patchedCode)
          m8Result == findM8Component(patchedCode)
          contentResult == findContentWrapper(patchedCode)
          ok1 == collapsedResult.success /\ collapsedResult.isPatched
          ok2 == switchResult.success /\ switchResult.isPatched
          ok3 == headerResult.success /\ headerResult.isPatched
          ok4 == m8Result.success /\ m8Result.isPatched
          ok5 == contentResult.success /\ contentResult.isPatched
          hc == Truthy(colors.headerColor)
          cc == Truthy(colors.contentColor)
          checks == (IF ok1 THEN {"collapsed_guard"} ELSE {})
                    \cup (IF ok2 THEN {"transcript_mode"} ELSE {})
                    \cup (IF hc /\ ok3 THEN {"header_color"} ELSE {})
                    \cup (IF cc /\ ok4 THEN {"m8_color"} ELSE {})
                    \cup (IF cc /\ ok5 THEN {"content_color"} ELSE {})
          failures == (IF ~ok1 /\ expectedPatches.collapsedView
                       THEN {"collapsed_guard"} ELSE {})
                      \cup (IF ~ok2 /\ expectedPatches.switchCase
                            THEN {"transcript_mode"} ELSE {})
                      \cup (IF hc /\ ~ok3 /\ expectedPatches.headerColor
                            THEN {"header_color"} ELSE {})
                      \cup (IF cc /\ ~ok4 /\ expectedPatches.contentColor
                            THEN {"m8_color"} ELSE {})
      IN  [valid |-> failures = {}, checks |-> checks, failures |-> failures]

(***************************************************************************)
(* Files.  A file holds the first len chunks of a text of FileChunks       *)
(* chunks; it is complete when len = FileChunks.  fs.copyFileSync opens    *)
(* the destination truncating it and then copies chunk after chunk, so an  *)
(* observer (or a crash) can see the destination with any prefix.          *)
(***************************************************************************)
FileChunks == 2

EmptyDoc == MkDoc("script", <<>>, <<>>, <<>>, <<>>, NoFn, <<>>)

\* Permission bits: what a file created by fs.openSync(path, 'w') gets
\* (0o666 less the umask), and those of an executable script.
DefaultMode == "rw-r--r--"
ExecMode == "rwxr-xr-x"

File(doc, len, mode) == [exists |-> TRUE, doc |-> doc, len |-> len, mode |-> mode]
Absent == [exists |-> FALSE, doc |-> EmptyDoc, len |-> 0, mode |-> DefaultMode]
Complete(f) == f.exists /\ f.len = FileChunks

\* fs.readFileSync(path, 'utf8'): a truncated text is accepted by no grammar.
readFileSync(f) == IF f.len = FileChunks THEN f.doc ELSE [f.doc EXCEPT !.grammar = "none"]

\* fs.copyFileSync(src, dst) opens dst truncating it and gives it the
\* permission bits of src.
copyOpen(src) == File(src.doc, 0, src.mode)

\* One step of fs.copyFileSync(src, dst) after dst was opened: the next chunk.
copyChunk(src, dst) == File(src.doc, dst.len + 1, src.mode)

(***************************************************************************)
(* main(): one run of the tool, step by step, and sequences of runs.       *)
(***************************************************************************)
VARIABLES
    target,      \* the file at cliPath
    backup,      \* the file at cliPath + '.backup'
    tmp,         \* the file at cliPath + '.tmp.<random>'
    pc,          \* where the current run stands
    args,        \* the current run's command line
    content,     \* main's content: the text read from the target
    colors,      \* main's colors
    patchedCode, \* main's patchedCode
    exitCode,    \* the status the last run gave to process.exit
    crashed,     \* the last run was killed, or died of an I/O error
    runs,        \* number of runs started
    h            \* history of the current and the previous run

vars == <<target, backup, tmp, pc, args, content, colors, patchedCode,
          exitCode, crashed, runs, h>>

MaxRuns == 3

Args(dry, restore, check, theme, color, contentColor) ==
    [DRY_RUN |-> dry, RESTORE |-> restore, CHECK_ONLY |-> check,
     THEME |-> theme, CUSTOM_COLOR |-> color, CONTENT_COLOR |-> contentColor]
NoArgs == Args(FALSE, FALSE, FALSE, "", Null, Null)
NoColors == [threw |-> FALSE, headerColor |-> Null, contentColor |-> Null]

\* A run that is asked to patch and write: no --restore, --dry-run, --check.
IsApplyRun(a) == ~a.RESTORE /\ ~a.DRY_RUN /\ ~a.CHECK_ONLY

\* A main that patches only when the three always-requested sites are found.
hasPatchableAllFound(detections, cols) ==
    /\ detections.expandedHeader.success
    /\ detections.collapsedView.success
    /\ detections.switchCase.success
    /\ \/ ~detections.expandedHeader.isPatched
       \/ ~detections.collapsedView.isPatched
       \/ ~detections.switchCase.isPatched
       \/ /\ Truthy(cols.contentColor)
          /\ detections.m8Component.success /\ ~detections.m8Component.isPatched

\* main: hasPatchablePatterns
hasPatchablePatterns(detections, cols) ==
    \/ detections.expandedHeader.success /\ ~detections.expandedHeader.isPatched
    \/ detections.collapsedView.success /\ ~detections.collapsedView.isPatched
    \/ detections.switchCase.success /\ ~detections.switchCase.isPatched
    \/ /\ Truthy(cols.contentColor)
       /\ detections.m8Component.success /\ ~detections.m8Component.isPatched

\* main: allPatched
allPatched(detections) ==
    /\ detections.expandedHeader.isPatched
    /\ detections.collapsedView.isPatched
    /\ detections.switchCase.isPatched

NewHistory(a) ==
    [pre |-> target, preBk |-> backup,
     read |-> FALSE, parsed |-> FALSE, detected |-> FALSE, validated |-> FALSE,
     edited |-> FALSE, verified |-> FALSE, wrote |-> FALSE, bkWrote |-> FALSE,
     originalMode |-> DefaultMode, synced |-> FALSE,
     prevApply |-> (runs > 0 /\ IsApplyRun(args) /\ ~crashed),
     sameArgs |-> (runs > 0 /\ a = args),
     prevWrote |-> h.wrote,
     prevPre |-> h.pre, prevPreBk |-> h.preBk,
     original |-> (IF runs = 0 THEN target ELSE h.original),
     killed |-> (h.killed \/ crashed)]

\* process.exit(code), or main returning.
Exit(code) == pc' = "done" /\ exitCode' = code /\ crashed' = FALSE

\* A new invocation of the tool.
Start(a) ==
    /\ pc \in {"idle", "done"}
    /\ runs < MaxRuns
    /\ runs' = runs + 1
    /\ args' = a
    /\ pc' = "begin"
    /\ h' = NewHistory(a)
    /\ content' = EmptyDoc /\ colors' = NoColors /\ patchedCode' = EmptyDoc
    /\ UNCHANGED <<target, backup, tmp, exitCode, crashed>>

\* if (RESTORE) { if (DRY_RUN) .. } process.exit(EXIT.SUCCESS)
RestoreDryRun ==
    /\ pc = "begin" /\ args.RESTORE /\ args.DRY_RUN
    /\ Exit(EXIT.SUCCESS)
    /\ UNCHANGED <<target, backup, tmp, args, content, colors, patchedCode, runs, h>>

\* restoreFromBackup: no backup, return false; main exits with SUCCESS.
RestoreNoBackup ==
    /\ pc = "begin" /\ args.RESTORE /\ ~args.DRY_RUN
    /\ ~backup.exists
    /\ Exit(EXIT.SUCCESS)
    /\ UNCHANGED <<target, backup, tmp, args, content, colors, patchedCode, runs, h>>

\* restoreFromBackup: fs.copyFileSync(backupPath, cliPath) opens the target
\* for writing, truncating it.
RestoreOpen ==
    /\ pc = "begin" /\ args.RESTORE /\ ~args.DRY_RUN
    /\ backup.exists
    /\ target' = copyOpen(backup)
    /\ h' = [h EXCEPT !.wrote = TRUE]
    /\ pc' = "rs_copy"
    /\ UNCHANGED <<backup, tmp, args, content, colors, patchedCode, exitCode, crashed, runs>>

\* fs.copyFileSync(backupPath, cliPath): the next chunk.
RestoreCopy ==
    /\ pc = "rs_copy"
    /\ target.len < backup.len
    /\ target' = copyChunk(backup, target)
    /\ UNCHANGED <<backup, tmp, pc, args, content, colors, patchedCode, exitCode, crashed, runs, h>>

\* restoreFromBackup returns true; main exits with SUCCESS.
RestoreDone ==
    /\ pc = "rs_copy"
    /\ target.len = backup.len
    /\ Exit(EXIT.SUCCESS)
    /\ UNCHANGED <<target, backup, tmp, args, content, colors, patchedCode, runs, h>>

\* const content = fs.readFileSync(cliPath, 'utf8')
ReadFile ==
    /\ pc = "begin" /\ ~args.RESTORE
    /\ content' = readFileSync(target)
    /\ h' = [h EXCEPT !.read = TRUE]
    /\ pc' = "parse"
    /\ UNCHANGED <<target, backup, tmp, args, colors, patchedCode, exitCode, crashed, runs>>

\* const ast = parseWithAcorn(content); if (!ast) process.exit(GENERAL_ERROR)
Parse ==
    /\ pc = "parse"
    /\ h' = [h EXCEPT !.parsed = TRUE]
    /\ IF parseWithAcorn(content)
       THEN pc' = "detect" /\ UNCHANGED <<exitCode, crashed>>
       ELSE Exit(EXIT.GENERAL_ERROR)
    /\ UNCHANGED <<target, backup, tmp, args, content, colors, patchedCode, runs>>

\* const detections = {...}: the five matchers run; their errors are printed.
Detect ==
    /\ pc = "detect"
    /\ h' = [h EXCEPT !.detected = TRUE]
    /\ pc' = "colors"
    /\ UNCHANGED <<target, backup, tmp, args, content, colors, patchedCode, exitCode, crashed, runs>>

\* const colors = resolveColors(): an invalid colour throws, which nothing
\* catches: the process ends with status 1.
ResolveColors ==
    /\ pc = "colors"
    /\ LET r == resolveColors(args.THEME, args.CUSTOM_COLOR, args.CONTENT_COLOR)
       IN  IF r.threw
           THEN Exit(EXIT.GENERAL_ERROR) /\ UNCHANGED <<colors, h>>
           ELSE /\ colors' = r
                /\ h' = [h EXCEPT !.validated = TRUE]
                /\ pc' = "decide"
                /\ UNCHANGED <<exitCode, crashed>>
    /\ UNCHANGED <<target, backup, tmp, args, content, patchedCode, runs>>

\* if (CHECK_ONLY) {...}
CheckOnly ==
    /\ pc = "decide" /\ args.CHECK_ONLY
    /\ LET d == detect(content)
       IN  IF hasPatchablePatterns(d, colors) THEN Exit(EXIT.SUCCESS)
           ELSE IF allPatched(d) THEN Exit(EXIT.ALREADY_PATCHED)
           ELSE Exit(EXIT.GENERAL_ERROR)
    /\ UNCHANGED <<target, backup, tmp, args, content, colors, patchedCode, runs, h>>

\* if (!hasPatchablePatterns) {...}
NothingPatchable ==
    /\ pc = "decide" /\ ~args.CHECK_ONLY
    /\ LET d == detect(content)
       IN  /\ ~hasPatchablePatterns(d, colors)
           /\ IF allPatched(d) THEN Exit(EXIT.ALREADY_PATCHED)
              ELSE Exit(EXIT.GENERAL_ERROR)
    /\ UNCHANGED <<target, backup, tmp, args, content, colors, patchedCode, runs, h>>

\* const { code: patchedCode, patches } = applyPatches(content, ast, detections, colors)
ApplyPatches ==
    /\ pc = "decide" /\ ~args.CHECK_ONLY
    /\ LET d == detect(content)
           r == applyPatches(content, d, colors)
       IN  /\ hasPatchablePatterns(d, colors)
           /\ patchedCode' = r.code
           /\ h' = [h EXCEPT !.edited = TRUE]
           /\ IF r.exit THEN Exit(EXIT.AMBIGUOUS)
              ELSE pc' = "verify" /\ UNCHANGED <<exitCode, crashed>>
    /\ UNCHANGED <<target, backup, tmp, args, content, colors, runs>>

\* A main whose dry run leaves before the verification.
VerifyAfterDryRunExit ==
    /\ pc = "verify"
    /\ IF args.DRY_RUN THEN Exit(EXIT.SUCCESS) /\ UNCHANGED h
       ELSE IF ~verifyPatchedCode(patchedCode, colors, NoExpectedPatches).valid
            THEN Exit(EXIT.VERIFICATION_FAILED) /\ UNCHANGED h
            ELSE /\ h' = [h EXCEPT !.verified = TRUE]
                 /\ pc' = "aw_backup" /\ UNCHANGED <<exitCode, crashed>>
    /\ UNCHANGED <<target, backup, tmp, args, content, colors, patchedCode, runs>>

\* const verification = verifyPatchedCode(patchedCode, colors); then the
\* dry-run exit.
Verify ==
    /\ pc = "verify"
    /\ LET v == verifyPatchedCode(patchedCode, colors, NoExpectedPatches)
       IN  IF ~v.valid THEN Exit(EXIT.VERIFICATION_FAILED) /\ UNCHANGED h
           ELSE /\ h' = [h EXCEPT !.verified = TRUE]
                /\ IF args.DRY_RUN THEN Exit(EXIT.SUCCESS)
                   ELSE pc' = "aw_backup" /\ UNCHANGED <<exitCode, crashed>>
    /\ UNCHANGED <<target, backup, tmp, args, content, colors, patchedCode, runs>>

\* An atomicWrite that leaves the temporary file's permission bits alone.
chmodSyncSkipped(f, mode) == f

\* fs.chmodSync(path, mode)
chmodSync(f, mode) == File(f.doc, f.len, mode)

\* An atomicWrite that refreshes the backup on every write.
backupAlwaysRefreshed(b) == TRUE

\* An atomicWrite that never makes a backup.
backupNeverCopied(b) == FALSE

\* An atomicWrite that copies the target to the backup path on every write.
backupAlwaysCopied(b) == TRUE

\* atomicWrite step 1: !fs.existsSync(backupPath)
backupMissing(b) == ~b.exists

\* atomicWrite step 1: the backup exists, nothing is copied.
BackupExists ==
    /\ pc = "aw_backup"
    /\ ~backupMissing(backup)
    /\ pc' = "aw_stat"
    /\ UNCHANGED <<target, backup, tmp, args, content, colors, patchedCode, exitCode, crashed, runs, h>>

\* atomicWrite step 1: fs.copyFileSync(targetPath, backupPath) creates the backup.
BackupOpen ==
    /\ pc = "aw_backup"
    /\ backupMissing(backup)
    /\ backup' = copyOpen(target)
    /\ h' = [h EXCEPT !.bkWrote = TRUE]
    /\ pc' = "aw_copy"
    /\ UNCHANGED <<target, tmp, args, content, colors, patchedCode, exitCode, crashed, runs>>

\* fs.copyFileSync(targetPath, backupPath): the next chunk, then on.
BackupCopy ==
    /\ pc = "aw_copy"
    /\ IF backup.len < target.len
       THEN backup' = copyChunk(target, backup) /\ pc' = pc
       ELSE pc' = "aw_stat" /\ UNCHANGED backup
    /\ UNCHANGED <<target, tmp, args, content, colors, patchedCode, exitCode, crashed, runs, h>>

\* atomicWrite step 2: fs.statSync(targetPath).mode
StatTarget ==
    /\ pc = "aw_stat"
    /\ h' = [h EXCEPT !.originalMode = target.mode]
    /\ pc' = "aw_open"
    /\ UNCHANGED <<target, backup, tmp, args, content, colors, patchedCode, exitCode, crashed, runs>>

\* atomicWrite step 3: fs.openSync(tempPath, 'w')
OpenTemp ==
    /\ pc = "aw_open"
    /\ tmp' = File(patchedCode, 0, DefaultMode)
    /\ pc' = "aw_write"
    /\ UNCHANGED <<target, backup, args, content, colors, patchedCode, exitCode, crashed, runs, h>>

\* fs.writeSync(fd, content)
WriteTemp ==
    /\ pc = "aw_write"
    /\ tmp' = File(patchedCode, FileChunks, tmp.mode)
    /\ pc' = "aw_fsync"
    /\ UNCHANGED <<target, backup, args, content, colors, patchedCode, exitCode, crashed, runs, h>>

\* fs.fsyncSync(fd); fs.closeSync(fd)
FsyncTemp ==
    /\ pc = "aw_fsync"
    /\ h' = [h EXCEPT !.synced = TRUE]
    /\ pc' = "aw_chmod"
    /\ UNCHANGED <<target, backup, tmp, args, content, colors, patchedCode, exitCode, crashed, runs>>

\* atomicWrite step 4: fs.chmodSync(tempPath, originalMode)
ChmodTemp ==
    /\ pc = "aw_chmod"
    /\ tmp' = chmodSync(tmp, h.originalMode)
    /\ pc' = "aw_rename"
    /\ UNCHANGED <<target, backup, args, content, colors, patchedCode, exitCode, crashed, runs, h>>

\* atomicWrite step 5: fs.renameSync(tempPath, targetPath); main exits with SUCCESS.
RenameTemp ==
    /\ pc = "aw_rename"
    /\ target' = tmp
    /\ tmp' = Absent
    /\ h' = [h EXCEPT !.wrote = TRUE]
    /\ Exit(EXIT.SUCCESS)
    /\ UNCHANGED <<backup, args, content, colors, patchedCode, runs>>

\* The process is killed, the machine loses power or a filesystem call
\* throws, between two filesystem steps: the run ends where it stands.
Crash ==
    /\ pc \in {"rs_copy", "aw_backup", "aw_copy", "aw_stat", "aw_open",
               "aw_write", "aw_fsync", "aw_chmod", "aw_rename"}
    /\ pc' = "done"
    /\ crashed' = TRUE
    /\ exitCode' = EXIT.GENERAL_ERROR
    /\ UNCHANGED <<target, backup, tmp, args, content, colors, patchedCode, runs, h>>

(***************************************************************************)
(* Targets and command lines of the model.                                 *)
(***************************************************************************)
Pink == <<"p","i","n","k">>
Hex3 == <<"#","0","f","0">>
BadColor == <<"\"",")",";">>

\* The sites as a 2.1.x build has them, unpatched.
Header0 == HeaderLit("child", Props("obj", {"dimColor", "italic"}, Null))
Anchor0 == <<"notOrIds">>
Case0 == <<IfStmt(TRUE), RetStmt(TRUE, "obj", "id", "id")>>
Wrapper0 == Wrapper(TRUE, NullProps)
Fn0 == ContentFn(TRUE, TRUE, FALSE, 1, 0)
Memo0 == Memo(TRUE, TRUE, FALSE, FALSE, <<"DF", "DF", "DF">>, 0, TRUE)

Pristine == MkDoc("script", <<Header0>>, <<Anchor0>>, <<Case0>>, <<Wrapper0>>, Fn0, <<Memo0>>)

\* case "thinking": if(!a&&!b)return null; if(c)return null;
\*   return R.createElement(X,{isTranscriptMode:t}); return R.createElement(Y,{})
CaseTwoReturns ==
    <<IfStmt(TRUE), IfStmt(TRUE), RetStmt(TRUE, "obj", "id", "absent"),
      RetStmt(TRUE, "obj", "absent", "absent")>>

\* case "thinking": if(!a&&!b)return null;
\*   return R.createElement(X,{isTranscriptMode,hideInTranscript:h})
CaseShorthand == <<IfStmt(TRUE), RetStmt(TRUE, "obj", "short", "id")>>

MainDocs ==
    { Pristine,
      [Pristine EXCEPT !.cases = <<CaseShorthand>>],
      [Pristine EXCEPT !.grammar = "module"],
      [Pristine EXCEPT !.grammar = "none"],
      [Pristine EXCEPT !.anchors = <<Anchor0, Anchor0>>],
      [Pristine EXCEPT !.cases = <<Case0, Case0>>],
      [Pristine EXCEPT !.cases = <<CaseTwoReturns>>],
      [Pristine EXCEPT !.headers = <<Header0, Header0>>],
      [Pristine EXCEPT !.memos = <<Memo0, Memo0>>],
      [Pristine EXCEPT !.wrappers = <<Wrapper0, Wrapper0>>],
      [Pristine EXCEPT !.fn = ContentFn(TRUE, TRUE, FALSE, 2, 0)],
      [Pristine EXCEPT !.anchors = <<>>, !.cases = <<>>],
      EmptyDoc }

\* --theme, --color and --content-color of the model's runs.
ColorChoices ==
    { <<"", Null, Null>>, <<"", Pink, Null>>, <<"", Null, Hex3>>,
      <<"", BadColor, Null>>, <<"", Pink, BadColor>>, <<"ocean", BadColor, Null>> }

MainArgs ==
    {Args(d, r, c, x[1], x[2], x[3]) :
        d \in BOOLEAN, r \in BOOLEAN, c \in BOOLEAN, x \in ColorChoices}

NoHistory ==
    [pre |-> Absent, preBk |-> Absent,
     read |-> FALSE, parsed |-> FALSE, detected |-> FALSE, validated |-> FALSE,
     edited |-> FALSE, verified |-> FALSE, wrote |-> FALSE, bkWrote |-> FALSE,
     originalMode |-> DefaultMode, synced |-> FALSE,
     prevApply |-> FALSE, sameArgs |-> FALSE, prevWrote |-> FALSE, prevPre |-> Absent, prevPreBk |-> Absent,
     original |-> Absent, killed |-> FALSE]

Init ==
    /\ target \in {File(d, FileChunks, ExecMode) : d \in MainDocs}
    /\ backup = Absent
    /\ tmp = Absent
    /\ pc = "idle"
    /\ args = NoArgs
    /\ content = EmptyDoc
    /\ colors = NoColors
    /\ patchedCode = EmptyDoc
    /\ exitCode = 0
    /\ crashed = FALSE
    /\ runs = 0
    /\ h = NoHistory

Next ==
    \/ \E a \in MainArgs : Start(a)
    \/ RestoreDryRun
    \/ RestoreNoBackup
    \/ RestoreOpen
    \/ RestoreCopy
    \/ RestoreDone
    \/ ReadFile
    \/ Parse
    \/ Detect
    \/ ResolveColors
    \/ CheckOnly
    \/ NothingPatchable
    \/ ApplyPatches
    \/ Verify
    \/ BackupExists
    \/ BackupOpen
    \/ BackupCopy
    \/ StatTarget
    \/ OpenTemp
    \/ WriteTemp
    \/ FsyncTemp
    \/ ChmodTemp
    \/ RenameTemp
    \/ Crash

Spec == Init /\ [][Next]_vars

(***************************************************************************)
(* Properties of runs (specification Spec).                                *)
(***************************************************************************)
\* A colour argument that is given and is neither a preset key nor a hex literal.
InvalidColorArg(c) == c # Null /\ c \notin DOMAIN COLOR_PRESETS /\ ~IsHexColor(c)

\* The current run's colour arguments are absent or valid.
ValidOptions ==
    ~InvalidColorArg(args.CUSTOM_COLOR) /\ ~InvalidColorArg(args.CONTENT_COLOR)

\* No file is a leftover of an interrupted copy.
NoTornFile ==
    /\ target.exists => Complete(target)
    /\ backup.exists => Complete(backup)

\* The current run is an apply run that ended by process.exit.
ApplyRunEnded == pc = "done" /\ IsApplyRun(args) /\ ~crashed /\ ValidOptions

\* The current run is a restore run (not dry) that ended by process.exit.
RestoreRunEnded == pc = "done" /\ args.RESTORE /\ ~args.DRY_RUN /\ ~crashed

\* Every matcher found its site in the text read.
AllSitesFound ==
    \A n \in {"expandedHeader", "collapsedView", "switchCase", "contentWrapper"} :
        detect(content)[n].success

\* A site counts as exercised for a requested capability when its matcher
\* found it in the text that was read; the guard and the switch case are
\* always requested, the header with a header colour, M8 with a content colour.
ExercisedSites ==
    {n \in {"collapsedView", "switchCase", "expandedHeader", "m8Component"} :
        /\ detect(content)[n].success
        /\ n = "expandedHeader" => Truthy(colors.headerColor)
        /\ n = "m8Component" => Truthy(colors.contentColor)}

SiteUnconfirmed(n) ==
    ~(detect(patchedCode)[n].success /\ detect(patchedCode)[n].isPatched)

\* C1: in an apply run whose edited text has an exercised site of a requested
\* capability that does not report success with isPatched = true, the run
\* exits with VERIFICATION_FAILED and writes neither the target nor the backup.
C1_VerificationRejectsUnpatchedSite ==
    (/\ ApplyRunEnded
     /\ h.edited
     /\ AllSitesFound
     /\ ~applyPatches(content, detect(content), colors).exit
     /\ \E n \in ExercisedSites : SiteUnconfirmed(n))
    => (/\ exitCode = EXIT.VERIFICATION_FAILED
        /\ target = h.pre
        /\ backup = h.preBk)

\* Some matcher of a requested capability returned AMBIGUOUS for the text
\* that was read (the guard and the switch case are always requested, the
\* header with a header colour, wrapper and M8 with a content colour).
SomeAmbiguous ==
    \E n \in {"expandedHeader", "collapsedView", "switchCase",
              "contentWrapper", "m8Component"} :
        /\ detect(content)[n].error = "AMBIGUOUS"
        /\ n = "expandedHeader" => Truthy(colors.headerColor)
        /\ n \in {"contentWrapper", "m8Component"} => Truthy(colors.contentColor)

\* C2: an apply run in which a shape matcher returned AMBIGUOUS ends with the
\* ambiguous exit status and does not write the target.
C2_AmbiguousAborts ==
    (ApplyRunEnded /\ h.validated /\ SomeAmbiguous)
    => (exitCode = EXIT.AMBIGUOUS /\ target = h.pre)

\* C3: in every run mode, a run given an invalid --color or --content-color
\* never reads, parses, edits or writes the target.
C3_InvalidColorBeforeFileAccess ==
    (/\ pc # "idle"
     /\ args.THEME = ""
     /\ InvalidColorArg(args.CUSTOM_COLOR) \/ InvalidColorArg(args.CONTENT_COLOR))
    => (~h.read /\ ~h.parsed /\ ~h.edited /\ ~h.wrote /\ target = h.pre)

\* C5 as stated: a restore run right after an apply run leaves the target with
\* the bytes it had before that apply run (the apply having written the target
\* and no copy having been interrupted).
C5_RestoreGivesPreApplyBytes ==
    (RestoreRunEnded /\ ValidOptions /\ h.prevApply /\ h.prevWrote /\ NoTornFile)
    => target = h.prevPre

\* C5 amended: a restore run right after an apply run leaves the target with
\* the bytes it had before that apply run when no backup file existed before
\* the apply, and with the bytes of the backup that existed before the apply
\* otherwise.
C5_RestoreGivesBackupBytes ==
    (RestoreRunEnded /\ h.prevApply)
    => target = (IF h.prevPreBk.exists THEN h.prevPreBk ELSE h.prevPre)

\* C5 witness: a restore has put back the bytes an apply run had replaced,
\* the apply having created the backup.
C5_Witness ==
    /\ RestoreRunEnded /\ h.prevApply /\ h.prevWrote /\ h.wrote
    /\ ~h.prevPreBk.exists
    /\ h.pre # h.prevPre
    /\ target = h.prevPre

\* C6: at every point of a run the target holds the complete old content or
\* the complete new content (the patched text of an apply, the backup's
\* bytes of a restore).
C6_TargetOldOrNew ==
    (pc # "idle" /\ ValidOptions /\ Complete(h.pre) /\ Complete(backup))
    => \/ target = h.pre
       \/ target = (IF args.RESTORE THEN backup ELSE File(patchedCode, FileChunks, h.pre.mode))

\* C8: after applyPatches has edited a site, that site's matcher reports
\* success with isPatched = true on the edited text.
C8_EditedSitesReportPatched ==
    (pc = "verify" /\ ValidOptions)
    => \A n \in applyPatches(content, detect(content), colors).applied :
          detect(patchedCode)[n].success /\ detect(patchedCode)[n].isPatched

\* Every capability the run requests is already patched in the text read.
AllRequestedPatched ==
    /\ detect(content).collapsedView.isPatched
    /\ detect(content).switchCase.isPatched
    /\ Truthy(colors.headerColor) => detect(content).expandedHeader.isPatched
    /\ Truthy(colors.contentColor) => detect(content).m8Component.isPatched

\* C9: an apply run in which every requested capability is already patched
\* (every site being found) exits with ALREADY_PATCHED and writes neither the
\* target nor a backup.
C9_AlreadyPatchedExit ==
    (ApplyRunEnded /\ h.validated /\ AllSitesFound /\ AllRequestedPatched)
    => (exitCode = EXIT.ALREADY_PATCHED /\ ~h.wrote /\ ~h.bkWrote)

\* C7: an apply run that follows a successful apply run with the same options
\* makes no edit: it leaves the target with the text the first run produced.
C7_SecondApplyMakesNoEdit ==
    (ApplyRunEnded /\ h.sameArgs /\ h.prevApply /\ h.prevWrote /\ NoTornFile)
    => target = h.pre

(***************************************************************************)
(* Colour handling on its own (specification SpecColors): every command    *)
(* line of ColorInputs is resolved and applied to the pristine text.       *)
(***************************************************************************)
MaxColorLen == 4

ColorAlphabet == {"#", "0", "f", "g"}

Hex6 == <<"#","A","1","b","2","C","3">>

\* Values of --color: every string over ColorAlphabet up to MaxColorLen, and
\* some longer ones.
ColorStrings ==
    SeqUpTo(ColorAlphabet, MaxColorLen)
    \cup { Null, Pink, Hex6, BadColor, <<"d","i","m">>,
           <<"#","f","f","f","f","f","f","f","f">>,
           <<"#","f","f","f","f","f","g">>,
           <<"#","f","f","f","\n">>,
           <<"c","o","n","s","t","r","u","c","t","o","r">>,
           <<"#","0","0","0","\"","}",")",";">> }

ContentColorStrings ==
    { Null, <<>>, Hex3, Hex6, Pink, BadColor, <<"d","i","m">>,
      <<"#","f","f","f","f">>, <<"'","}",")","/","/">> }

ThemeStrings == {"", "ocean", "cyberpunk", "nosuch", "constructor"}

ColorInputs ==
    {Args(FALSE, FALSE, FALSE, t, c, cc) :
        t \in ThemeStrings, c \in ColorStrings, cc \in ContentColorStrings}

\* The state in which a function of the program is about to be applied to
\* the text doc under the command line a.
InputState(stage, a, doc) ==
    /\ target = Absent /\ backup = Absent /\ tmp = Absent
    /\ pc = stage
    /\ args = a
    /\ content = doc
    /\ colors = NoColors
    /\ patchedCode = EmptyDoc
    /\ exitCode = 0 /\ crashed = FALSE /\ runs = 0 /\ h = NoHistory

InitColors == \E a \in ColorInputs : InputState("c_input", a, Pristine)

\* const colors = resolveColors()
ColorsResolve ==
    /\ pc = "c_input"
    /\ colors' = resolveColors(args.THEME, args.CUSTOM_COLOR, args.CONTENT_COLOR)
    /\ pc' = IF colors'.threw THEN "c_threw" ELSE "c_resolved"
    /\ UNCHANGED <<target, backup, tmp, args, content, patchedCode, exitCode,
                   crashed, runs, h>>

\* applyPatches(content, ast, detections, colors)
ColorsApply ==
    /\ pc = "c_resolved"
    /\ patchedCode' = applyPatches(content, detect(content), colors).code
    /\ pc' = "c_patched"
    /\ UNCHANGED <<target, backup, tmp, args, content, colors, exitCode,
                   crashed, runs, h>>

NextColors == ColorsResolve \/ ColorsApply

SpecColors == InitColors /\ [][NextColors]_vars

\* What a call of validateColor may give back.
IsValidated(v) == v = Null \/ v = Thrown \/ IsHexColor(v)

\* The colours found in the text: the color property of the header's props
\* and of the content wrapper's props.
ColorsInText(code) ==
    {code.headers[i].props.color : i \in 1..Len(code.headers)}
    \cup {code.wrappers[i].props.color : i \in 1..Len(code.wrappers)}

\* C4: validateColor returns null or a #RGB / #RRGGBB string, or throws, for
\* every colour argument; and every colour that applyPatches has put into the
\* text is a #RGB / #RRGGBB string.
C4_InterpolatedColorsAreHex ==
    /\ IsValidated(validateColor(args.CUSTOM_COLOR))
    /\ IsValidated(validateColor(args.CONTENT_COLOR))
    /\ pc # "c_input" => (colors.headerColor = Null \/ IsHexColor(colors.headerColor))
    /\ pc # "c_input" => (colors.contentColor = Null \/ IsHexColor(colors.contentColor))
    /\ pc = "c_patched" =>
          \A c \in ColorsInText(patchedCode) : c = Null \/ IsHexColor(c)

\* C4 witness: both colours have been put into the text, the header colour
\* from a hex argument and the content colour from a preset name.
C4_Witness ==
    /\ pc = "c_patched"
    /\ args.CUSTOM_COLOR = Hex3 /\ args.CONTENT_COLOR = Pink
    /\ patchedCode.headers[1].props.color = Hex3
    /\ patchedCode.wrappers[1].props.color = COLOR_PRESETS[Pink]

(***************************************************************************)
(* The collapsed-view and switch-case matchers on their own (specification *)
(* SpecMatch): texts with up to MaxAnchors "∴ Thinking (" literals, or up   *)
(* to MaxCases case "thinking" clauses, are matched and patched without    *)
(* colours.                                                                *)
(***************************************************************************)
MaxAnchors == 3
MaxCases == 3
MaxHeaders == 3

\* The IfStatements around one "∴ Thinking (" literal, nearest first.
AnchorShapes ==
    { <<>>, <<"not1">>, <<"notOrIds">>, <<"notId">>, <<"notOrExpr">>,
      <<"other">>, <<"other", "notOrIds">>, <<"notOrIds", "not1">> }

\* Bodies of one case "thinking" clause.
CaseShapes ==
    { Case0,
      CaseTwoReturns,
      <<RetStmt(TRUE, "obj", "not0", "not1")>>,
      <<IfStmt(FALSE), RetStmt(TRUE, "obj", "not0", "absent")>>,
      <<RetStmt(TRUE, "obj", "id", "absent")>>,
      <<RetStmt(TRUE, "obj", "id", "id"), RetStmt(TRUE, "none", "absent", "absent")>>,
      <<RetStmt(TRUE, "obj", "not0", "not1"), RetStmt(TRUE, "expr", "absent", "absent")>>,
      <<IfStmt(TRUE), RetStmt(TRUE, "obj", "absent", "absent")>>,
      <<IfStmt(TRUE), RetStmt(TRUE, "obj", "not0", "not1")>>,
      <<RetStmt(TRUE, "obj", "not0", "id")>>,
      <<IfStmt(FALSE), RetStmt(TRUE, "obj", "id", "id")>>,
      <<IfStmt(TRUE), RetStmt(TRUE, "obj", "id", "id"), IfStmt(FALSE)>>,
      <<OtherStmt, RetStmt(FALSE, "none", "absent", "absent")>>,
      <<>> }

\* One "∴ Thinking…" literal: unpatched, with a color property, with null
\* props, in the props argument, outside every createElement call.
HeaderShapes ==
    { Header0,
      HeaderLit("child", Props("obj", {"italic"}, COLOR_PRESETS[Pink])),
      HeaderLit("child", NullProps),
      HeaderLit("props", Props("obj", {"title"}, Null)),
      HeaderLit("nocall", NullProps) }

\* A memo'd component whose body also calls createElement(Box, null, ..) and
\* createElement("span", null, ..), and one that fails the ANSI test.
MemoMixed == Memo(TRUE, TRUE, TRUE, FALSE, <<"DF", "Box", "DF", "", "DF">>, 0, TRUE)
MemoOther == Memo(TRUE, TRUE, FALSE, FALSE, <<"K", "K", "K">>, 0, FALSE)

MatchDocs ==
    {[Pristine EXCEPT !.memos = x] :
        x \in {<<MemoMixed>>, <<MemoOther, MemoMixed>>, <<MemoMixed, MemoOther, Memo0>>}}
    \cup
    {[Pristine EXCEPT !.anchors = a] : a \in SeqUpTo(AnchorShapes, MaxAnchors)}
    \cup {[Pristine EXCEPT !.cases = c] : c \in SeqUpTo(CaseShapes, MaxCases)}
    \cup {[Pristine EXCEPT !.headers = x] : x \in SeqUpTo(HeaderShapes, MaxHeaders)}

\* No colour requested, or --color=pink (the content colour then is pink too).
MatchArgs == {NoArgs, Args(FALSE, FALSE, FALSE, "", Pink, Null)}

InitMatch == \E d \in MatchDocs, a \in MatchArgs : InputState("m_input", a, d)

\* resolveColors(), then applyPatches(content, ast, detections, colors)
MatchApply ==
    /\ pc = "m_input"
    /\ colors' = resolveColors(args.THEME, args.CUSTOM_COLOR, args.CONTENT_COLOR)
    /\ patchedCode' = applyPatches(content, detect(content), colors').code
    /\ pc' = "m_patched"
    /\ UNCHANGED <<target, backup, tmp, args, content, exitCode, crashed, runs, h>>

\* findCollapsedView / findSwitchCase on the patched text
MatchAgain ==
    /\ pc = "m_patched"
    /\ content' = patchedCode
    /\ pc' = "m_again"
    /\ UNCHANGED <<target, backup, tmp, args, colors, patchedCode, exitCode,
                   crashed, runs, h>>

NextMatch == MatchApply \/ MatchAgain

SpecMatch == InitMatch /\ [][NextMatch]_vars

\* The candidates of the collapsed-view matcher: the literals whose nearest
\* IfStatement tests a negation of one of the accepted forms; the patched
\* ones test !1.
cvCandidates(code) ==
    {i \in 1..Len(code.anchors) :
        /\ Len(code.anchors[i]) > 0
        /\ code.anchors[i][1] \in {"not1", "notOrIds", "notOrExpr", "notId"}}
cvUnpatched(code) == {i \in cvCandidates(code) : code.anchors[i][1] # "not1"}

\* The candidates of the switch-case matcher: the clauses that return a
\* createElement call and have isTranscriptMode in the props of such a
\* return; the patched ones have isTranscriptMode:!0 in the props of the last
\* such return that has props.
scReturns(stmts) ==
    {k \in 1..Len(stmts) : stmts[k].type = "Return" /\ stmts[k].call}
scLastProps(stmts) ==
    Max({0} \cup {k \in scReturns(stmts) : stmts[k].props # "none"})
scCandidates(code) ==
    {i \in 1..Len(code.cases) :
        \E k \in scReturns(code.cases[i]) :
            code.cases[i][k].props = "obj" /\ code.cases[i][k].itm # "absent"}
scUnpatched(code) ==
    {i \in scCandidates(code) :
        LET k == scLastProps(code.cases[i])
        IN  ~(code.cases[i][k].props = "obj" /\ code.cases[i][k].itm = "not0")}

\* The disambiguation policy for one matcher: cands and unp are its
\* candidates and its unpatched candidates, r its result, before and after
\* the site's entries in the text before and after applyPatches.
PolicyHolds(cands, unp, r, before, after) ==
    Cardinality(cands) > 1 =>
       /\ unp = {} => (r.success /\ r.isPatched /\ after = before)
       /\ Cardinality(unp) = 1 =>
             /\ r.success /\ ~r.isPatched /\ r.idx \in unp
             /\ \A j \in 1..Len(before) : j # r.idx => after[j] = before[j]
       /\ Cardinality(unp) > 1 =>
             /\ ~r.success /\ r.error = "AMBIGUOUS" /\ r.count = Cardinality(unp)
             /\ after = before

\* The edit applyPatches makes in the returned candidate: the guard's test
\* has become !1; the clause has lost an IfStatement if it had one, and the
\* props of its last return have isTranscriptMode:!0 if they had the property.
cvEdited(before, after) == after[1] = "not1" /\ Tail(after) = Tail(before)
scEdited(before, after) ==
    LET k == scLastProps(before)
        hadIf == \E j \in 1..Len(before) : before[j].type = "If"
    IN  /\ Len(after) = Len(before) - (IF hadIf THEN 1 ELSE 0)
        /\ (before[k].props = "obj" /\ before[k].itm # "absent")
             => \E j \in 1..Len(after) :
                    /\ after[j].itm = "not0"
                    /\ after[j].hide = (IF before[k].hide = "absent" THEN "absent" ELSE "not1")

\* C10: with more than one valid candidate, findCollapsedView and
\* findSwitchCase report isPatched when every candidate is patched, return the
\* unpatched candidate when there is exactly one (and applyPatches edits that
\* candidate and no other), and fail with AMBIGUOUS and the number of
\* unpatched candidates when there are several (and applyPatches leaves the
\* site as it is).
C10_DisambiguationPolicy ==
    pc = "m_patched" =>
       /\ PolicyHolds(cvCandidates(content), cvUnpatched(content),
                      findCollapsedView(content), content.anchors, patchedCode.anchors)
       /\ PolicyHolds(scCandidates(content), scUnpatched(content),
                      findSwitchCase(content), content.cases, patchedCode.cases)
       /\ (Cardinality(cvCandidates(content)) > 1 /\ Cardinality(cvUnpatched(content)) = 1)
            => \A u \in cvUnpatched(content) :
                  cvEdited(content.anchors[u], patchedCode.anchors[u])
       /\ (Cardinality(scCandidates(content)) > 1 /\ Cardinality(scUnpatched(content)) = 1)
            => \A u \in scUnpatched(content) :
                  scEdited(content.cases[u], patchedCode.cases[u])

\* C10 witness: of three collapsed-view candidates the first and the last
\* are patched; the middle one was returned and its test overwritten.
C10_Witness ==
    /\ pc = "m_patched"
    /\ cvCandidates(content) = {1, 2, 3}
    /\ cvUnpatched(content) = {2}
    /\ findCollapsedView(content).idx = 2
    /\ patchedCode.anchors[2][1] = "not1"
    /\ patchedCode.anchors # content.anchors

\* The candidates of the expanded-header matcher: the literals that are a
\* child argument of a createElement call; the patched ones have a color
\* property in that call's props.
ehCandidates(code) ==
    {i \in 1..Len(code.headers) : code.headers[i].pos = "child"}
ehUnpatched(code) ==
    {i \in ehCandidates(code) :
        ~(code.headers[i].props.kind = "obj" /\ code.headers[i].props.color # Null)}

\* C11: with more than one valid candidate, findExpandedHeader reports
\* AMBIGUOUS only if more than one candidate is unpatched, reports success
\* with isPatched = true when all are patched, and returns the unpatched
\* candidate when there is exactly one.
C11_HeaderDisambiguation ==
    LET r == findExpandedHeader(content)
        unp == ehUnpatched(content)
    IN  Cardinality(ehCandidates(content)) > 1 =>
           /\ r.error = "AMBIGUOUS" => Cardinality(unp) > 1
           /\ unp = {} => (r.success /\ r.isPatched)
           /\ Cardinality(unp) = 1 => (r.success /\ r.idx \in unp)

(***************************************************************************)
(* Verification gates the write (main, lines 1444-1465).                   *)
(***************************************************************************)
\* The steps of atomicWrite.
InAtomicWrite ==
    pc \in {"aw_backup", "aw_copy", "aw_stat", "aw_open", "aw_write",
            "aw_fsync", "aw_chmod", "aw_rename"}

\* C12: in an apply run no backup is created and the target is not written
\* (atomicWrite is not even entered) until the verifier has accepted the
\* edited text, which then parses; and a run whose edited text fails to
\* re-parse under both grammars ends with VERIFICATION_FAILED (3), target and
\* backup being what they were when the run started.
C12_VerifiedBeforeWrite ==
    (pc # "idle" /\ IsApplyRun(args)) =>
        /\ (target # h.pre \/ backup # h.preBk \/ InAtomicWrite)
              => (h.verified /\ parseWithAcorn(patchedCode))
        /\ (/\ pc = "done" /\ ~crashed
            /\ h.edited /\ exitCode # EXIT.AMBIGUOUS
            /\ ~parseWithAcorn(patchedCode))
              => (exitCode = EXIT.VERIFICATION_FAILED
                  /\ target = h.pre /\ backup = h.preBk)

\* An apply run edited the text, the result did not parse, and the run
\* ended with status 3 over an untouched target.
C12_Witness ==
    /\ pc = "done" /\ IsApplyRun(args) /\ ~crashed
    /\ h.edited /\ ~parseWithAcorn(patchedCode)
    /\ exitCode = EXIT.VERIFICATION_FAILED
    /\ target = h.pre /\ backup = h.preBk

(***************************************************************************)
(* The backup of atomicWrite (lines 194-199).                              *)
(***************************************************************************)
\* atomicWrite is past its backup step, or has replaced the target.
PastBackupStep ==
    \/ pc \in {"aw_stat", "aw_open", "aw_write", "aw_fsync", "aw_chmod", "aw_rename"}
    \/ pc = "done" /\ h.wrote

\* C13: in an apply run, from the end of atomicWrite's backup step on (so
\* before the rename, and after it) a backup exists: it is the copy of the
\* target as the run found it when there was none, and the backup the run
\* found, unchanged, when there was one.  Up to the rename the target is
\* still what the run found.
C13_BackupBeforeReplace ==
    (IsApplyRun(args) /\ PastBackupStep) =>
        /\ backup.exists
        /\ h.preBk.exists => backup = h.preBk
        /\ ~h.preBk.exists => backup = h.pre
        /\ ~h.wrote => target = h.pre

\* An apply run replaced a target that had no backup.
C13_Witness ==
    /\ pc = "done" /\ IsApplyRun(args) /\ ~crashed /\ h.wrote
    /\ ~h.preBk.exists /\ backup = h.pre /\ target # h.pre

\* An apply run replaced a target whose backup existed and differs from it.
C13_WitnessKept ==
    /\ pc = "done" /\ IsApplyRun(args) /\ ~crashed /\ h.wrote
    /\ h.preBk.exists /\ backup = h.preBk /\ backup # h.pre /\ target # h.pre

HeaderPatched == HeaderLit("child", Props("obj", {"italic"}, COLOR_PRESETS[Pink]))
CasePatched == <<RetStmt(TRUE, "obj", "not0", "not1")>>

ApplyHeaders == { <<Header0>>, <<>>, <<HeaderLit("nocall", NullProps)>>, <<HeaderPatched>> }
ApplyAnchors == { <<Anchor0>>, <<>>, << <<"other">> >>, << <<"not1">> >> }
ApplyCases == { <<Case0>>, <<>>, << <<OtherStmt>> >>, <<CaseShorthand>>, <<CasePatched>> }
ApplyMemos == { <<Memo0>>, <<>> }

\* case "thinking": if(!(A||B)) return createElement(T,null,"∴ Thinking (…");
\*                  return createElement(X,{isTranscriptMode:A,hideInTranscript:B})
CaseHoldsAnchor ==
    [Pristine EXCEPT !.anchors = <<Anchor0>>,
                     !.cases = << <<IfStmt(FALSE), RetStmt(TRUE, "obj", "id", "id")>> >>,
                     !.nested = TRUE]

ApplyDocs ==
    { MkDoc("script", hs, as, cs, <<Wrapper0>>, Fn0, ms) :
        hs \in ApplyHeaders, as \in ApplyAnchors, cs \in ApplyCases, ms \in ApplyMemos }
    \cup { [Pristine EXCEPT !.grammar = "module"],
           [Pristine EXCEPT !.grammar = "none"],
           [Pristine EXCEPT !.fn = ContentFn(TRUE, TRUE, FALSE, 2, 0)],
           CaseHoldsAnchor }

ApplyArgs ==
    { Args(d, FALSE, FALSE, x[1], x[2], x[3]) :
        d \in BOOLEAN,
        x \in { <<"", Null, Null>>, <<"", Pink, Null>>, <<"", Null, Hex3>>,
                <<"ocean", Null, Null>>, <<"", BadColor, Null>> } }

InitApply ==
    /\ target \in {File(d, FileChunks, m) : d \in ApplyDocs, m \in {ExecMode, DefaultMode}}
    /\ backup \in {Absent, File(Pristine, FileChunks, ExecMode)}
    /\ tmp = Absent
    /\ pc = "idle"
    /\ args = NoArgs
    /\ content = EmptyDoc
    /\ colors = NoColors
    /\ patchedCode = EmptyDoc
    /\ exitCode = 0
    /\ crashed = FALSE
    /\ runs = 0
    /\ h = NoHistory

\* What the previous run computed, kept for comparison with the current one.
Remembered(a) ==
    NewHistory(a) @@
    [prevContent |-> content, prevColors |-> colors, prevCode |-> patchedCode,
     prevExit |-> exitCode, prevEdited |-> h.edited, prevVerified |-> h.verified]

\* The first invocation.
StartFirst(a) ==
    /\ pc = "idle"
    /\ runs' = 1
    /\ args' = a
    /\ pc' = "begin"
    /\ h' = Remembered(a)
    /\ UNCHANGED <<target, backup, tmp, content, colors, patchedCode, exitCode, crashed>>

\* After a dry run: the same command line without --dry-run.
StartReal ==
    /\ pc = "done" /\ runs = 1 /\ args.DRY_RUN
    /\ runs' = 2
    /\ args' = [args EXCEPT !.DRY_RUN = FALSE]
    /\ pc' = "begin"
    /\ h' = Remembered(args)
    /\ content' = EmptyDoc /\ colors' = NoColors /\ patchedCode' = EmptyDoc
    /\ UNCHANGED <<target, backup, tmp, exitCode, crashed>>

NextApply ==
    \/ \E a \in ApplyArgs : StartFirst(a)
    \/ StartReal
    \/ ReadFile
    \/ Parse
    \/ Detect
    \/ ResolveColors
    \/ NothingPatchable
    \/ ApplyPatches
    \/ Verify
    \/ BackupExists
    \/ BackupOpen
    \/ BackupCopy
    \/ StatTarget
    \/ OpenTemp
    \/ WriteTemp
    \/ FsyncTemp
    \/ ChmodTemp
    \/ RenameTemp

SpecApply == InitApply /\ [][NextApply]_vars

\* The real run that followed a dry run has ended.
RealAfterDryEnded == pc = "done" /\ runs = 2

\* The patch report of a run that reached applyPatches.
reportOf(code, cols) == applyPatches(code, detect(code), cols).patches

\* C15: a dry run and the real run with the same options on the same target
\* read the same text and resolve the same colours, hence compute the same
\* detections and the same patch report; they produce the same edited text,
\* get the same verification result and end with the same exit status.
C15_DryRunMatchesRealRun ==
    RealAfterDryEnded =>
        /\ content = h.prevContent /\ colors = h.prevColors
        /\ detect(content) = detect(h.prevContent)
        /\ h.edited = h.prevEdited
        /\ h.edited => reportOf(content, colors) = reportOf(h.prevContent, h.prevColors)
        /\ patchedCode = h.prevCode
        /\ h.verified = h.prevVerified
        /\ exitCode = h.prevExit

\* The real run wrote the text the dry run had computed; both ended with 0.
C15_Witness ==
    /\ RealAfterDryEnded /\ h.wrote /\ h.prevEdited
    /\ exitCode = EXIT.SUCCESS /\ h.prevExit = EXIT.SUCCESS
    /\ target.doc = h.prevCode /\ target # h.pre

(***************************************************************************)
(* What applyPatches leaves alone (specification SpecMatch).  The text is  *)
(* the sequence of its sites' nodes; an edit range is the node (or the     *)
(* part of a node) that a ms.overwrite / ms.remove call of applyPatches    *)
(* names.                                                                  *)
(***************************************************************************)
\* The subsequence of s at the positions outside drop.
Without(s, drop) ==
    LET keep == {i \in 1..Len(s) : i \notin drop}
        nth(k) == CHOOSE i \in keep : Cardinality({j \in keep : j <= i}) = k
    IN  [k \in 1..Cardinality(keep) |-> s[nth(k)]]

\* Every entry of a site's list other than entry idx is kept, in place.
OthersKept(before, after, idx) ==
    /\ Len(after) = Len(before)
    /\ \A j \in 1..Len(before) : j # idx => after[j] = before[j]

\* The entry that applyPatches edits at site n (0: none).
editedAt(code, cols, n) ==
    IF n \in applyPatches(code, detect(code), cols).applied
    THEN detect(code)[n].idx ELSE 0

\* Patch 1 replaces the nearest test only.
GuardSpansKept(before, after) ==
    after = <<"not1">> \o Tail(before)

\* Patch 2 removes statement g and replaces, in statement p, the values of
\* isTranscriptMode and hideInTranscript only.
CaseSpansKept(before, after, g, p) ==
    LET q == IF g # 0 /\ g < p THEN p - 1 ELSE p
        objProps == p # 0 /\ p # g /\ before[p].props = "obj"
    IN  /\ Len(after) = Len(before) - (IF g # 0 THEN 1 ELSE 0)
        /\ IF objProps
           THEN /\ Without(after, {q}) = Without(before, {g, p})
                /\ after[q].type = before[p].type /\ after[q].call = before[p].call
                /\ after[q].props = before[p].props
                /\ after[q].itm = (IF before[p].itm = "absent" THEN "absent" ELSE "not0")
                /\ after[q].hide = (IF before[p].hide = "absent" THEN "absent" ELSE "not1")
           ELSE after = Without(before, {g})

\* Patch 3 replaces the props argument only.
HeaderSpansKept(before, after, headerColor) ==
    after.pos = before.pos /\ after.props = Props("obj", {"italic"}, headerColor)

\* Patch 4a/4b replaces the parameter pattern and the null props of the
\* root-element calls only: the other createElement(T, null, ..) calls are
\* kept in order.
MemoSpansKept(before, after) ==
    /\ after.fnArg = before.fnArg /\ after.children = before.children
    /\ after.ansi = before.ansi
    /\ after.nullCalls = Without(before.nullCalls, dfCreateCalls(before))
    /\ after.fwd = before.fwd + Cardinality(dfCreateCalls(before))

Accepted(code) == code.grammar \in {"script", "module"}

\* C17: once a run has parsed the text it read: a text that neither grammar
\* accepts makes parseWithAcorn return null and the run end with status 1,
\* no matcher, colour resolution, edit, verification, backup or write having
\* run and both files being as the run found them; a text that a grammar
\* accepts is parsed and the run goes on to the matchers; the module grammar
\* is tried only for a text the script grammar rejects.
C17_ParseGate ==
    (~args.RESTORE /\ h.parsed) =>
        /\ Accepted(content) =>
              (parseWithAcorn(content) /\ (pc = "done" => h.detected))
        /\ ~Accepted(content) =>
              /\ ~parseWithAcorn(content)
              /\ pc = "done" /\ ~crashed /\ exitCode = EXIT.GENERAL_ERROR
              /\ ~h.detected /\ ~h.validated /\ ~h.edited /\ ~h.verified
              /\ ~h.wrote /\ ~h.bkWrote
              /\ target = h.pre /\ backup = h.preBk
        /\ (\E i \in 1..Len(grammarsTried(content)) : grammarsTried(content)[i] = "module")
              => content.grammar # "script"

\* A run read a whole target that no grammar accepts and ended with status 1.
C17_Witness ==
    /\ pc = "done" /\ ~args.RESTORE /\ h.parsed /\ ~h.detected
    /\ Complete(target) /\ content = target.doc /\ ~Accepted(content)
    /\ exitCode = EXIT.GENERAL_ERROR

\* A run read a text that the module grammar alone accepts and went on.
C17_WitnessModule ==
    /\ pc = "done" /\ ~args.RESTORE /\ h.parsed /\ h.detected
    /\ content.grammar = "module"

(***************************************************************************)
(* Sites are patched independently (specification SpecApply).              *)
(***************************************************************************)
PatchSites == {"collapsedView", "switchCase", "expandedHeader", "m8Component"}

\* The part of the text that holds site n's nodes.
siteNodes(code, n) ==
    CASE n = "collapsedView" -> code.anchors
      [] n = "switchCase" -> code.cases
      [] n = "expandedHeader" -> code.headers
      [] n = "m8Component" -> code.memos

\* Site n is detected unpatched, and its colour, if it needs one, is requested.
UnpatchedAndRequested(code, cols, n) ==
    /\ detect(code)[n].success /\ ~detect(code)[n].isPatched
    /\ n = "expandedHeader" => Truthy(cols.headerColor)
    /\ n = "m8Component" => Truthy(cols.contentColor)

\* The matcher of site n failed with NOT_FOUND or PATTERN_MISMATCH.
Missing(code, n) ==
    ~detect(code)[n].success /\ detect(code)[n].error \in {"NOT_FOUND", "PATTERN_MISMATCH"}

\* The run is past main's decision on whether anything is patchable.
PastDecision ==
    pc \notin {"idle", "begin", "parse", "detect", "colors", "decide"} /\ h.validated

\* C18: in an apply run, for distinct sites n1 and n2: when n1's matcher fails
\* with NOT_FOUND or PATTERN_MISMATCH and n2 is detected unpatched (with its
\* colour requested where it needs one), applyPatches runs and edits n2's
\* node.
C18_SitesPatchedIndependently ==
    (IsApplyRun(args) /\ PastDecision) =>
        \A n1 \in PatchSites, n2 \in PatchSites :
            (n1 # n2 /\ Missing(content, n1) /\ UnpatchedAndRequested(content, colors, n2)) =>
                /\ h.edited
                /\ n2 \in applyPatches(content, detect(content), colors).applied
                /\ siteNodes(patchedCode, n2)[detect(content)[n2].idx]
                      # siteNodes(content, n2)[detect(content)[n2].idx]

\* An apply run found no header and no case "thinking", and wrote a text in
\* which the guard is rewritten.
C18_Witness ==
    /\ pc = "done" /\ IsApplyRun(args) /\ h.wrote
    /\ Missing(content, "expandedHeader") /\ Missing(content, "switchCase")
    /\ UnpatchedAndRequested(content, colors, "collapsedView")
    /\ target.doc = patchedCode
    /\ patchedCode.anchors # content.anchors

(***************************************************************************)
(* The collapsed-view guard scenario (specification SpecApply).            *)
(***************************************************************************)
\* The text has one candidate guard, an IfStatement with test !(A||B)
\* nearest to the anchor literal, and no other.
SingleGuard(code) ==
    /\ Cardinality(cvCandidates(code)) = 1
    /\ \A i \in cvCandidates(code) : code.anchors[i][1] = "notOrIds"

\* The guard's test has become !1 and every other test is as it was.
GuardRewritten(before, after) ==
    /\ Len(after.anchors) = Len(before.anchors)
    /\ \A i \in 1..Len(before.anchors) :
          after.anchors[i] = (IF i \in cvCandidates(before)
                              THEN <<"not1">> \o Tail(before.anchors[i])
                              ELSE before.anchors[i])

\* The text outside the guard sites.
OutsideGuards(code) == [code EXCEPT !.anchors = <<>>]

\* An apply run on a single-guard text has written its output.
GuardRunWrote ==
    pc = "done" /\ IsApplyRun(args) /\ h.wrote /\ SingleGuard(content)

TempReadyFor(f) ==
    /\ Complete(tmp) /\ tmp.doc = patchedCode
    /\ h.synced
    /\ tmp.mode = f.mode /\ h.originalMode = f.mode

\* C20: in an apply run the rename is reached only with the temporary file
\* holding the complete new text, flushed, and carrying the permission bits of
\* the target (which is untouched until then); up to the rename the target is
\* as the run found it, and after it the target is that temporary file: the
\* new text, under the permission bits the target had before the apply.
C20_RenameAfterTempReady ==
    IsApplyRun(args) =>
        /\ pc = "aw_rename" => (TempReadyFor(target) /\ target = h.pre)
        /\ (pc # "idle" /\ ~h.wrote) => target = h.pre
        /\ (pc # "idle" /\ h.wrote) =>
              /\ pc = "done" /\ ~crashed /\ exitCode = EXIT.SUCCESS
              /\ h.synced
              /\ target = File(patchedCode, FileChunks, h.pre.mode)

\* A successful apply replaced an executable target: the new text has the
\* old permission bits, which are not those a new file gets.
C20_Witness ==
    /\ pc = "done" /\ IsApplyRun(args) /\ h.wrote /\ ~crashed
    /\ target.doc = patchedCode /\ target.doc # h.pre.doc
    /\ target.mode = h.pre.mode /\ target.mode # DefaultMode

(***************************************************************************)
(* The header colour edit (applyPatches, lines 1191-1199).                 *)
(***************************************************************************)
\* C21: when applyPatches edits the header whose props argument is an
\* object, every property of that object is still in the edited props, and
\* what is added is color, with the requested value.
C21_HeaderPropsKept ==
    (pc = "m_patched" /\ editedAt(content, colors, "expandedHeader") # 0) =>
        LET i == editedAt(content, colors, "expandedHeader")
            before == content.headers[i].props
            after == patchedCode.headers[i].props
        IN  before.kind = "obj" =>
                /\ after.kind = "obj"
                /\ before.keys \subseteq after.keys
                /\ after.color = colors.headerColor

(***************************************************************************)
(* The guard that findCollapsedView picks for one anchor literal.          *)
(***************************************************************************)
\* The nearest enclosing IfStatement whose test is !(A||B), A and B
\* identifiers, or !1 (0: none).
nearestGuardShaped(ifTests) ==
    Min({Len(ifTests) + 1} \cup
        {k \in 1..Len(ifTests) : ifTests[k] \in {"notOrIds", "not1"}}) % (Len(ifTests) + 1)

\* C22: for a text with one anchor literal, findCollapsedView reports an
\* unpatched candidate only when the nearest enclosing IfStatement of guard
\* shape tests !(A||B) with A and B identifiers, a patched one only when it
\* tests !1, and it does report a candidate whenever such an IfStatement
\* encloses the literal, be it an outer one.
C22_NearestGuardShapedIf ==
    Len(content.anchors) = 1 =>
        LET r == findCollapsedView(content)
            g == nearestGuardShaped(content.anchors[1])
        IN  /\ (r.success /\ ~r.isPatched) => (g # 0 /\ content.anchors[1][g] = "notOrIds")
            /\ (r.success /\ r.isPatched) => (g # 0 /\ content.anchors[1][g] = "not1")
            /\ g # 0 => r.success

(***************************************************************************)
(* isPatched of the switch case against the shape Patch 2 produces.        *)
(***************************************************************************)
\* The shape applyPatches leaves in a case "thinking": no guard
\* if-statement, isTranscriptMode:!0, and hideInTranscript:!1 if present,
\* in the props of the last createElement return that has props.
PostEditCase(stmts) ==
    /\ \A j \in 1..Len(stmts) : ~(stmts[j].type = "If" /\ stmts[j].guard)
    /\ scLastProps(stmts) # 0
    /\ stmts[scLastProps(stmts)].props = "obj"
    /\ stmts[scLastProps(stmts)].itm = "not0"
    /\ stmts[scLastProps(stmts)].hide \in {"absent", "not1"}

\* C23: for a text with one case "thinking" that findSwitchCase accepts,
\* isPatched is TRUE exactly when the case has the post-edit shape.
C23_PatchedIffPostEditShape ==
    (Len(content.cases) = 1 /\ findSwitchCase(content).success) =>
        (findSwitchCase(content).isPatched <=> PostEditCase(content.cases[1]))

\* C24: an apply run whose edits overlap ends with an error status and has
\* not written the target or the backup.
C24_OverlapAborts ==
    (pc = "done" /\ IsApplyRun(args) /\ h.edited /\ editsOverlap(content, colors)) =>
        (exitCode # EXIT.SUCCESS /\ ~h.wrote /\ ~h.bkWrote)

\* The top-level IfStatements of a case body that are no  if(<negation>)return null.
otherIfs(stmts) == {j \in 1..Len(stmts) : stmts[j].type = "If" /\ ~stmts[j].guard}

\* C25: the switch-case edit leaves every top-level if-statement of the case
\* "thinking" body that is no guard  if(<negation>)return null  in place.
C25_OnlyGuardsRemoved ==
    (pc = "m_patched" /\ editedAt(content, colors, "switchCase") # 0) =>
        LET i == editedAt(content, colors, "switchCase")
        IN  Cardinality(otherIfs(patchedCode.cases[i])) =
                Cardinality(otherIfs(content.cases[i]))

\* C26: whenever applyPatches edits the M8 component for a content colour,
\* the content wrapper and the content component function were detected, the
\* wrapper call passes the requested colour and the component forwards it.
C26_ContentColorAllOrNothing ==
    (PastDecision /\ h.edited) =>
        LET d == detect(content)
        IN  doPatch4(d, colors) =>
                /\ patchedCode.memos # content.memos
                /\ d.contentWrapper.success
                /\ findContentComponentFunction(content).found
                /\ patchedCode.wrappers[d.contentWrapper.idx].props.color = colors.contentColor
                /\ patchedCode.fn.color

(***************************************************************************)
(* The backup over sequences of runs (specification Spec).                 *)
(***************************************************************************)
\* Some run of the sequence was killed before it ended.
SomeRunKilled == h.killed \/ crashed

\* The backup exists and no copy to it is under way.
BackupAtRest == runs > 0 /\ backup.exists /\ pc # "aw_copy"

\* C27: over runs from a target without a backup, none of them killed, the
\* backup, once written, equals the target as it was before the first run; no
\* step changes a backup that exists, and a step that creates the backup
\* copies a target that still is the original one.
C27_BackupIsOriginal ==
    /\ []((BackupAtRest /\ ~SomeRunKilled) => backup = h.original)
    /\ [][BackupAtRest => backup' = backup]_vars
    /\ [][(~backup.exists /\ backup'.exists) => target = h.original]_vars

\* A later run replaced an already patched target again while the backup,
\* still the original text, stayed as it was.
C27_Witness ==
    /\ pc = "done" /\ runs >= 2 /\ ~SomeRunKilled
    /\ h.wrote /\ h.preBk.exists /\ h.pre.doc # h.original.doc
    /\ backup = h.original
    /\ target.doc # h.original.doc

\* C28: a restore run without --dry-run that found no backup leaves the
\* target as it was and ends with a status other than SUCCESS.
C28_RestoreWithoutBackupFails ==
    (pc = "done" /\ ~crashed /\ args.RESTORE /\ ~args.DRY_RUN /\ ~h.preBk.exists) =>
        (target = h.pre /\ exitCode # EXIT.SUCCESS)

\* C29: an apply run that has written the backup or the target, or ended
\* with SUCCESS past the patchability decision, made at least one edit in
\* applyPatches.
C29_WritesOnlyAfterAnEdit ==
    (pc = "done" /\ IsApplyRun(args) /\ h.edited
        /\ (h.wrote \/ h.bkWrote \/ exitCode = EXIT.SUCCESS)) =>
        applyPatches(content, detect(content), colors).applied # {}

\* C30: after an apply run that asked for a header colour, found the header
\* call and ended with SUCCESS, the header call's props in the target carry
\* that colour.
C30_HeaderCarriesRequestedColor ==
    (pc = "done" /\ IsApplyRun(args) /\ h.edited /\ exitCode = EXIT.SUCCESS
        /\ Truthy(colors.headerColor) /\ findExpandedHeader(content).success) =>
        LET eh == findExpandedHeader(target.doc)
        IN  eh.success /\ target.doc.headers[eh.idx].props.color = colors.headerColor

====
